---- MODULE Spec2Model ----
(***************************************************************************)
(* The synchronisation and persistence logic of the cloud-sync variant of  *)
(* the vault (App with firebase.js): startup reconciliation (loadItems),   *)
(* the real-time subscription, and the four mutation handlers, over the    *)
(* three stores they touch: the IndexedDB object store (localDB), the      *)
(* Firestore collection plus the Storage bucket (remote, blobs) and the    *)
(* legacy localStorage key (legacy).                                       *)
(*                                                                         *)
(* Every await of the source is a step boundary: a handler is a task whose *)
(* pc names the asynchronous call it is waiting for, and whose fields hold *)
(* the values its closure captured (items, cloudEnabled) when it started.  *)
(***************************************************************************)
EXTENDS Integers, Sequences, FiniteSets, TLC

\* ------------------------------------------------------------------ bounds
\* ids (and creation instants) the handlers may still hand out: 1..MaxId
MaxId == 4
\* handler invocations in flight at once, where handlers overlap
MaxTasks == 2
\* files in one upload intent
MaxFiles == 2
\* page loads (sessions) per behaviour
MaxSessions == 2
\* mutation intents per behaviour, where handlers run one at a time
MaxOps == 1

\* --------------------------------------------------- admission constants
\* scaled from 500 items, 5000 characters, 10 MB
MAX_ITEMS == 2
MAX_NOTE_LENGTH == 2
MAX_FILE_SIZE == 10

ALLOWED_FILE_TYPES == {"image/png", "application/pdf"}

\* ------------------------------------------------------------------ items
NoContent == <<>>

\* An item as the handlers build it.  data is "none" (a note has no data
\* field), "inline" (a data: URL) or "url" (a download URL); updatedAt is 0
\* while the field is absent and 1 once saveItemToCloud stamped it; ids up to
\* NumericIdMax are numbers (records written by the first variant of the
\* page), larger ones are the strings generateId returns.
NumericIdMax == 1

IsNumericId(id) == id <= NumericIdMax

Note(id, content, important, at, upd) ==
    [id |-> id, type |-> "note", content |-> content, fileType |-> "",
     data |-> "none", isCloudStored |-> FALSE, important |-> important,
     createdAt |-> at, updatedAt |-> upd]

File(id, fileType, data, cloud, important, at, upd) ==
    [id |-> id, type |-> "file", content |-> NoContent, fileType |-> fileType,
     data |-> data, isCloudStored |-> cloud, important |-> important,
     createdAt |-> at, updatedAt |-> upd]

Range(s) == {s[i] : i \in 1..Len(s)}

Ids(s) == {s[i].id : i \in 1..Len(s)}

SetIds(S) == {x.id : x \in S}

\* ---------------------------------------------------------------- sorting
\* Array.prototype.sort as V8 runs it on a short array: the leading run is
\* found (and reversed when strictly descending), the rest is inserted by
\* binary search.  cmp[x, y] is comparefn(x, y) with NaN already made 0.
RECURSIVE RunLen(_, _, _, _)
RunLen(s, cmp, desc, n) ==
    IF n >= Len(s) THEN n
    ELSE LET order == cmp[s[n + 1], s[n]]
         IN  IF (desc /\ order >= 0) \/ (~desc /\ order < 0) THEN n
             ELSE RunLen(s, cmp, desc, n + 1)

Reverse(s) == [i \in 1..Len(s) |-> s[Len(s) + 1 - i]]

RECURSIVE BinarySearch(_, _, _, _, _)
BinarySearch(s, cmp, pivot, left, right) ==
    IF left >= right THEN left
    ELSE LET mid == left + ((right - left) \div 2)
         IN  IF cmp[pivot, s[mid]] < 0
             THEN BinarySearch(s, cmp, pivot, left, mid)
             ELSE BinarySearch(s, cmp, pivot, mid + 1, right)

InsertAt(s, k, x) == SubSeq(s, 1, k - 1) \o <<x>> \o SubSeq(s, k, Len(s))

RECURSIVE BinaryInsertionSort(_, _, _)
BinaryInsertionSort(sorted, rest, cmp) ==
    IF rest = <<>> THEN sorted
    ELSE LET pivot == Head(rest)
             k == BinarySearch(sorted, cmp, pivot, 1, Len(sorted) + 1)
         IN  BinaryInsertionSort(InsertAt(sorted, k, pivot), Tail(rest), cmp)

ArraySort(s, cmp) ==
    IF Len(s) < 2 THEN s
    ELSE LET desc == cmp[s[2], s[1]] < 0
             n == RunLen(s, cmp, desc, 2)
             run == IF desc THEN Reverse(SubSeq(s, 1, n)) ELSE SubSeq(s, 1, n)
         IN  BinaryInsertionSort(run, SubSeq(s, n + 1, Len(s)), cmp)

\* The records of a keyed store in key order (Firestore: document name;
\* IndexedDB: keyPath id), the order getDocs / getAll hand them out in.
RECURSIVE InKeyOrder(_)
InKeyOrder(S) ==
    IF S = {} THEN <<>>
    ELSE LET x == CHOOSE y \in S : \A z \in S : y.id <= z.id
         IN  <<x>> \o InKeyOrder(S \ {x})

\* items.sort((a, b) => b.id - a.id): a string id makes the difference NaN
CloudCmp(S) ==
    [a \in S, b \in S |->
        IF IsNumericId(a.id) /\ IsNumericId(b.id) THEN b.id - a.id ELSE 0]

\* sort((a, b) => new Date(b.createdAt) - new Date(a.createdAt))
DateCmp(S) == [a \in S, b \in S |-> b.createdAt - a.createdAt]

CloudSorted(S) == ArraySort(InKeyOrder(S), CloudCmp(S))

DBSorted(S) == ArraySort(InKeyOrder(S), DateCmp(S))

\* a saveItemToCloud that never uploads
NeedsUploadNever(item) == FALSE

\* ------------------------------------------------------------- firebase.js
\* saveItemToCloud uploads first when the item is a file whose data starts
\* with "data:" (lines 59-69)
NeedsUpload(item) == item.type = "file" /\ item.data = "inline"

\* a saveItemToCloud that swaps the data for the URL and leaves the flag
CloudRecordUnflagged(item) ==
    IF NeedsUpload(item)
    THEN [item EXCEPT !.data = "url", !.updatedAt = 1]
    ELSE [item EXCEPT !.updatedAt = 1]

\* the itemData saveItemToCloud writes with setDoc and returns (lines 72-88)
CloudRecord(item) ==
    IF NeedsUpload(item)
    THEN [item EXCEPT !.data = "url", !.isCloudStored = TRUE, !.updatedAt = 1]
    ELSE [item EXCEPT !.updatedAt = 1]

\* setDoc(doc(db, ITEMS_COLLECTION, id), itemData): one document per id
SetDoc(docs, rec) == {d \in docs : d.id # rec.id} \cup {rec}

\* deleteDoc(doc(db, ITEMS_COLLECTION, id))
DeleteDoc(docs, id) == {d \in docs : d.id # id}

\* a deleteItemFromCloud that calls deleteObject for every file
HasBlobWhenFile(item) == item.type = "file"

\* deleteItemFromCloud goes on to deleteObject only for a cloud-stored file
HasBlobToDelete(item) == item.type = "file" /\ item.isCloudStored

\* ------------------------------------------------------- IndexedDB helpers
\* a saveItemsToDB whose guard never returns early
SaveGuardNever(list, forceEmpty, existingCount) == FALSE

\* saveItemsToDB returns before its write transaction when asked to store an
\* empty list, not forced, over a store that counts records (lines 47-61)
SaveGuardSkips(list, forceEmpty, existingCount) ==
    Len(list) = 0 /\ ~forceEmpty /\ existingCount > 0

\* a saveItemsToDB call counts the store first only in this case (line 47)
SaveCounts(list, forceEmpty) == Len(list) = 0 /\ ~forceEmpty

\* store.add of a key already added in the transaction raises
\* ConstraintError and the transaction aborts (lines 67-82)
AddsSucceed(list) == Cardinality(Ids(list)) = Len(list)

\* ---------------------------------------------------------- legacy import
\* The value under 'myImportantItems': absent, text that does not parse to
\* an array ("garbage"), or an array of entries.  An entry says what
\* safeJSONParse looks at, and carries the record it stands for.
Entry(isObject, hasId, typeIsString, item) ==
    [isObject |-> isObject, hasId |-> hasId, typeIsString |-> typeIsString,
     item |-> item]

LegacyAbsent == [kind |-> "absent", list |-> <<>>]

LegacyGarbage == [kind |-> "garbage", list |-> <<>>]

LegacyList(l) == [kind |-> "list", list |-> l]

\* a filter that does not look at the id
WellFormedWithoutId(e) == e.isObject /\ e.typeIsString

\* the predicate of parsed.filter: an object with a defined id and a string type
WellFormed(e) == e.isObject /\ e.hasId /\ e.typeIsString

RECURSIVE FilterEntries(_)
FilterEntries(l) ==
    IF l = <<>> THEN <<>>
    ELSE (IF WellFormed(Head(l)) THEN <<Head(l).item>> ELSE <<>>)
         \o FilterEntries(Tail(l))

\* safeJSONParse(data, [])
safeJSONParse(value) ==
    IF value.kind = "list" THEN FilterEntries(value.list) ELSE <<>>

\* ================================================================== state
VARIABLES
    \* what outlives a page load
    configured,       \* isFirebaseConfigured(): the deployment's config
    remote,           \* the Firestore collection: a set of records
    blobs,            \* ids with an object files/<id>_<name> in Storage
    localDB,          \* the IndexedDB object store: a set of records
    legacy,           \* localStorage 'myImportantItems'
    \* the App component's state
    items,            \* useState([]): the authoritative collection
    cloudEnabled,     \* useState(false)
    syncStatus,       \* useState('checking')
    initialLoadDone,  \* useRef(false)
    subscribed,       \* the onSnapshot listener is registered
    pushDue,          \* a snapshot is waiting to be delivered to it
    \* loadItems: the await it is at, and the list it is working through
    loadPc,
    loadQ,
    \* the handler invocations in flight
    tasks,
    \* counters that bound a behaviour
    nextId,
    session,
    ops,
    faults,
    \* what has happened, for stating properties
    lastPush,         \* how the last snapshot callback ended
    startLocal,       \* localDB when this page load began
    startRemote,      \* remote when this page load began
    startLegacy,      \* legacy when this page load began
    prevRun,          \* the items the page load before this one ended with
    lastCloud,        \* how the last call of the firebase.js adapter ended
    lastReturn,       \* how the last handler that returned ended
    removed,          \* ids of documents an applied snapshot took out of the items
    deleted,          \* ids of the items a deleteItem that returned has deleted
    early,            \* ids of the items made by handlers called before loadItems adopted a list
    \* the variant that saves through a debounced effect (no sync)
    saveTimer,        \* the setTimeout(saveItems, 500) of the save effect
    dbJobs,           \* calls of openDatabase not yet through, oldest first
    readers,          \* FileReaders that have not fired onload yet
    loadBranch,       \* which source loadItems adopted
    loadSnap,         \* the list loadItemsFromCloud returned to it
    migrated,         \* a legacy import was persisted and the key removed
    imported          \* times loadItems adopted a non-empty legacy list

persistent == <<configured, remote, blobs, localDB, legacy>>

component == <<items, cloudEnabled, syncStatus, initialLoadDone, subscribed, pushDue>>

loader == <<loadPc, loadQ>>

counters == <<nextId, session, ops, faults>>

history == <<lastPush, startLocal, startRemote, startLegacy, prevRun, loadBranch, loadSnap, migrated, imported>>

debounced == <<saveTimer, dbJobs, readers>>

vars == <<persistent, component, loader, tasks, counters, history, lastCloud, lastReturn, removed, deleted, early, debounced>>

\* injected faults (a rejected network call, a failed transaction) per behaviour
MaxFaults == 1

\* the outcomes an asynchronous call can have, TRUE being success, while at
\* most F calls of a behaviour fail
Outcomes(F) == IF faults < F THEN {TRUE, FALSE} ELSE {TRUE}

Charge(ok) == IF ok THEN faults ELSE faults + 1

\* ------------------------------------------------------------------ seeds
\* Records earlier sessions, or another device, can have left in the stores.
RemoteA == Note(1, <<"a">>, FALSE, 1, 1)

RemoteB == File(2, "image/png", "url", TRUE, FALSE, 2, 1)

LocalA == Note(1, <<"a">>, TRUE, 1, 0)

LocalB == File(2, "image/png", "inline", FALSE, FALSE, 2, 0)

LegacyA == Note(1, <<"a">>, FALSE, 1, 0)

LegacySeeds ==
    {LegacyAbsent, LegacyGarbage,
     LegacyList(<<Entry(TRUE, TRUE, TRUE, LegacyA)>>),
     LegacyList(<<Entry(TRUE, FALSE, TRUE, LegacyA)>>),
     LegacyList(<<Entry(TRUE, FALSE, TRUE, LegacyA), Entry(TRUE, TRUE, TRUE, LegacyA)>>),
     LegacyList(<<Entry(TRUE, TRUE, TRUE, LegacyA), Entry(TRUE, TRUE, TRUE, LegacyA)>>)}

\* generateId never returns an id a stored record has
FirstFreeId == RemoteB.id + 1

\* ------------------------------------------------------------------ tasks
NoItem == Note(0, NoContent, FALSE, 0, 0)

Idle ==
    [kind |-> "idle", pc |-> "idle", its |-> <<>>, ce |-> FALSE,
     item |-> NoItem, cur |-> <<>>, files |-> <<>>, force |-> FALSE,
     log |-> <<>>, disturbed |-> FALSE, rejected |-> FALSE, early |-> FALSE]

NoPush == [kind |-> "none", busy |-> FALSE]

\* no timer is armed
NoTimer == [armed |-> FALSE, list |-> <<>>]

\* no page load before this one ran loadItems to its end, untouched by
\* handlers and snapshots
NoRun == [known |-> FALSE, items |-> <<>>]

Slots == 1..MaxTasks

InFlight == {t \in Slots : tasks[t].kind # "idle"}

AllIdle == InFlight = {}

\* a change of items that no handler made: the handlers in flight hold a
\* captured list that is now stale for a reason other than another handler
Disturb(ts, changed) ==
    [t \in Slots |->
        IF ts[t].kind = "idle" \/ ~changed THEN ts[t] ELSE [ts[t] EXCEPT !.disturbed = TRUE]]

\* The state when the page is unlocked, over stores as earlier sessions can
\* have left them; L is what the legacy key may hold in a deployment with a
\* Firebase configuration.
Boot(L) ==
    /\ configured \in BOOLEAN
    /\ remote \in (IF configured THEN SUBSET {RemoteA, RemoteB} ELSE {{}})
    /\ blobs = {d.id : d \in {x \in remote : x.isCloudStored}}
    /\ localDB \in SUBSET {LocalA, LocalB}
    /\ legacy \in (IF configured THEN L ELSE LegacySeeds)
    /\ items = <<>>
    /\ cloudEnabled = FALSE
    /\ syncStatus = "checking"
    /\ initialLoadDone = FALSE
    /\ subscribed = FALSE
    /\ pushDue = FALSE
    /\ loadPc = "persist"
    /\ loadQ = <<>>
    /\ tasks = [t \in Slots |-> Idle]
    /\ nextId = FirstFreeId
    /\ session = 1
    /\ ops = 0
    /\ faults = 0
    /\ lastPush = NoPush
    /\ startLocal = localDB
    /\ startRemote = remote
    /\ startLegacy = legacy
    /\ prevRun = NoRun
    /\ lastCloud = "none"
    /\ lastReturn = "none"
    /\ removed = {}
    /\ deleted = {}
    /\ early = {}
    /\ saveTimer = NoTimer
    /\ dbJobs = <<>>
    /\ readers = <<>>
    /\ loadBranch = "none"
    /\ loadSnap = <<>>
    /\ migrated = FALSE
    /\ imported = 0

\* a configured deployment that never wrote the legacy key
Init == Boot({LegacyAbsent})

\* a configured deployment that took over from one that wrote the legacy key
InitUpgraded == Boot({LegacyAbsent, LegacyList(<<Entry(TRUE, TRUE, TRUE, LegacyA)>>)})

\* ============================================================== loadItems
\* a loadItems whose timer is armed at the end of the try block only
SettleWithoutFinally(ok, status) ==
    /\ loadPc' = IF ok THEN "timer" ELSE "failed"
    /\ loadQ' = <<>>
    /\ syncStatus' = IF ok THEN status ELSE "offline"

\* the finally block: setTimeout(() => initialLoadDone.current = true, 100)
\* is armed; the catch block sets the status to offline first
Settle(ok, status) ==
    /\ loadPc' = "timer"
    /\ loadQ' = <<>>
    /\ syncStatus' = IF ok THEN status ELSE "offline"

\* a loadItems that lets a non-empty local store win over the cloud
AdoptsCloudUnlessLocal(cloudItems) == Len(cloudItems) > 0 /\ localDB = {}

\* loadItems adopts what loadItemsFromCloud returned when it is not empty
AdoptsCloud(cloudItems) == Len(cloudItems) > 0

\* the first await of saveItemToCloud(item)
CloudPc(item) == IF NeedsUpload(item) THEN "upload" ELSE "setDoc"

\* a check that takes the placeholder configuration for a real one
ConfigAssumed == TRUE

\* checkFirebaseConfig(): isFirebaseConfigured(), whether apiKey and
\* projectId differ from the placeholders
checkFirebaseConfig == configured

\* requestPersistentStorage has returned: checkFirebaseConfig,
\* setCloudEnabled, and the first read is issued.  The subscribe effect runs
\* on the render that follows setCloudEnabled(true).
LoadStart ==
    /\ loadPc = "persist"
    /\ cloudEnabled' = checkFirebaseConfig
    /\ syncStatus' = IF checkFirebaseConfig THEN "syncing" ELSE "offline"
    /\ loadPc' = IF checkFirebaseConfig THEN "cloudRead" ELSE "dbRead"
    /\ subscribed' = checkFirebaseConfig
    /\ pushDue' = checkFirebaseConfig
    /\ UNCHANGED <<persistent, items, initialLoadDone, loadQ, tasks, counters, history>>
    /\ UNCHANGED lastCloud
    /\ UNCHANGED lastReturn
    /\ UNCHANGED removed
    /\ UNCHANGED deleted
    /\ UNCHANGED early
    /\ UNCHANGED debounced

\* loadItemsFromCloud resolves: the sorted documents, or [] when getDocs failed
LoadCloudRead(F) ==
    /\ loadPc = "cloudRead"
    /\ \E ok \in Outcomes(F) :
        LET cloudItems == IF ok THEN CloudSorted(remote) ELSE <<>>
        IN  /\ faults' = Charge(ok)
            /\ lastCloud' = IF ok THEN "ok" ELSE "failed"
            /\ IF AdoptsCloud(cloudItems)
               THEN /\ items' = cloudItems
                    /\ tasks' = Disturb(tasks, cloudItems # items)
                    /\ loadQ' = cloudItems
                    /\ loadPc' = "mirror"
                    /\ loadBranch' = "cloud"
                    /\ loadSnap' = cloudItems
               ELSE /\ loadPc' = "dbRead"
                    /\ UNCHANGED <<items, tasks, loadQ, loadBranch, loadSnap>>
    /\ UNCHANGED <<persistent, cloudEnabled, syncStatus, initialLoadDone, subscribed, pushDue>>
    /\ UNCHANGED <<nextId, session, ops, lastPush, startLocal, startRemote, startLegacy, prevRun, migrated, imported>>
    /\ UNCHANGED lastReturn
    /\ UNCHANGED removed
    /\ UNCHANGED deleted
    /\ UNCHANGED early
    /\ UNCHANGED debounced

\* await saveItemsToDB(cloudItems) returns or throws
LoadMirror(F) ==
    /\ loadPc = "mirror"
    /\ \E ok \in Outcomes(F) :
        /\ faults' = Charge(ok)
        /\ localDB' = IF ok /\ AddsSucceed(loadQ) THEN Range(loadQ) ELSE localDB
        /\ Settle(ok /\ AddsSucceed(loadQ), "synced")
        /\ loadBranch' = IF ok /\ AddsSucceed(loadQ) THEN loadBranch ELSE "error"
    /\ UNCHANGED <<configured, remote, blobs, legacy>>
    /\ UNCHANGED <<items, cloudEnabled, initialLoadDone, subscribed, pushDue, tasks>>
    /\ UNCHANGED <<nextId, session, ops, lastPush, startLocal, startRemote, startLegacy, prevRun, loadSnap, migrated, imported>>
    /\ UNCHANGED lastCloud
    /\ UNCHANGED lastReturn
    /\ UNCHANGED removed
    /\ UNCHANGED deleted
    /\ UNCHANGED early
    /\ UNCHANGED debounced

\* loadItemsFromDB resolves or rejects, on either side of the configuration test
LoadDbRead(F) ==
    /\ loadPc = "dbRead"
    /\ \E ok \in Outcomes(F) :
        LET dbItems == DBSorted(localDB)
            parsed == safeJSONParse(legacy)
        IN  /\ faults' = Charge(ok)
            /\ IF ~ok
               THEN /\ Settle(FALSE, syncStatus)
                    /\ loadBranch' = "error"
                    /\ UNCHANGED <<items, tasks, imported>>
               ELSE IF Len(dbItems) > 0
               THEN /\ items' = dbItems
                    /\ tasks' = Disturb(tasks, dbItems # items)
                    /\ loadBranch' = IF checkFirebaseConfig THEN "localPush" ELSE "local"
                    /\ IF checkFirebaseConfig
                       THEN /\ loadPc' = CloudPc(Head(dbItems))
                            /\ loadQ' = dbItems
                            /\ UNCHANGED syncStatus
                       ELSE Settle(TRUE, syncStatus)
                    /\ UNCHANGED imported
               ELSE IF checkFirebaseConfig \/ legacy.kind = "absent"
               THEN /\ Settle(TRUE, syncStatus)
                    /\ loadBranch' = "empty"
                    /\ UNCHANGED <<items, tasks, imported>>
               ELSE /\ items' = parsed
                    /\ tasks' = Disturb(tasks, parsed # items)
                    /\ IF Len(parsed) > 0
                       THEN /\ loadPc' = "migrate"
                            /\ loadQ' = parsed
                            /\ loadBranch' = "legacy"
                            /\ imported' = imported + 1
                            /\ UNCHANGED syncStatus
                       ELSE /\ Settle(TRUE, syncStatus)
                            /\ loadBranch' = "empty"
                            /\ UNCHANGED imported
    /\ UNCHANGED <<persistent, cloudEnabled, initialLoadDone, subscribed, pushDue>>
    /\ UNCHANGED <<nextId, session, ops, lastPush, startLocal, startRemote, startLegacy, prevRun, loadSnap, migrated>>
    /\ UNCHANGED lastCloud
    /\ UNCHANGED lastReturn
    /\ UNCHANGED removed
    /\ UNCHANGED deleted
    /\ UNCHANGED early
    /\ UNCHANGED debounced

\* the snapshot listener hears of a change of the collection it listens to
Notify == IF subscribed THEN TRUE ELSE pushDue

\* for (const item of dbItems) await saveItemToCloud(item): uploadBytes of
\* the item at the head of the list resolves or rejects
LoadPushUpload(F) ==
    /\ loadPc = "upload"
    /\ \E ok \in Outcomes(F) :
        /\ faults' = Charge(ok)
        /\ lastCloud' = IF ok THEN lastCloud ELSE "failed"
        /\ blobs' = IF ok THEN blobs \cup {Head(loadQ).id} ELSE blobs
        /\ IF ok
           THEN /\ loadPc' = "setDoc"
                /\ UNCHANGED <<loadQ, syncStatus, loadBranch>>
           ELSE /\ Settle(FALSE, syncStatus)
                /\ loadBranch' = "error"
    /\ UNCHANGED <<configured, remote, localDB, legacy>>
    /\ UNCHANGED <<items, cloudEnabled, initialLoadDone, subscribed, pushDue, tasks>>
    /\ UNCHANGED <<nextId, session, ops, lastPush, startLocal, startRemote, startLegacy, prevRun, loadSnap, migrated, imported>>
    /\ UNCHANGED lastReturn
    /\ UNCHANGED removed
    /\ UNCHANGED deleted
    /\ UNCHANGED early
    /\ UNCHANGED debounced

\* setDoc of the item at the head of the list resolves or rejects; the
\* record saveItemToCloud returns is dropped, the loop goes on or ends
LoadPushSetDoc(F) ==
    /\ loadPc = "setDoc"
    /\ \E ok \in Outcomes(F) :
        /\ faults' = Charge(ok)
        /\ lastCloud' = IF ok THEN "ok" ELSE "failed"
        /\ remote' = IF ok THEN SetDoc(remote, CloudRecord(Head(loadQ))) ELSE remote
        /\ pushDue' = IF ok THEN Notify ELSE pushDue
        /\ IF ~ok
           THEN /\ Settle(FALSE, syncStatus)
                /\ loadBranch' = "error"
           ELSE IF Len(loadQ) > 1
           THEN /\ loadPc' = CloudPc(loadQ[2])
                /\ loadQ' = Tail(loadQ)
                /\ UNCHANGED <<syncStatus, loadBranch>>
           ELSE /\ Settle(TRUE, "synced")
                /\ UNCHANGED loadBranch
    /\ UNCHANGED <<configured, blobs, localDB, legacy>>
    /\ UNCHANGED <<items, cloudEnabled, initialLoadDone, subscribed, tasks>>
    /\ UNCHANGED <<nextId, session, ops, lastPush, startLocal, startRemote, startLegacy, prevRun, loadSnap, migrated, imported>>
    /\ UNCHANGED lastReturn
    /\ UNCHANGED removed
    /\ UNCHANGED deleted
    /\ UNCHANGED early
    /\ UNCHANGED debounced

\* a loadItems that leaves the key in place
AfterMigrationKept(value) == value

\* what the legacy key holds once the import has been saved (line 287)
AfterMigration(value) == LegacyAbsent

\* await saveItemsToDB(parsed) returns, and the key is removed, or throws
LoadMigrate(F) ==
    /\ loadPc = "migrate"
    /\ \E ok \in Outcomes(F) :
        LET saved == ok /\ AddsSucceed(loadQ)
        IN  /\ faults' = Charge(ok)
            /\ localDB' = IF saved THEN Range(loadQ) ELSE localDB
            /\ legacy' = IF saved THEN AfterMigration(legacy) ELSE legacy
            /\ migrated' = (migrated \/ saved)
            /\ Settle(saved, syncStatus)
            /\ loadBranch' = IF saved THEN loadBranch ELSE "error"
    /\ UNCHANGED <<configured, remote, blobs>>
    /\ UNCHANGED <<items, cloudEnabled, initialLoadDone, subscribed, pushDue, tasks>>
    /\ UNCHANGED <<nextId, session, ops, lastPush, startLocal, startRemote, startLegacy, prevRun, loadSnap, imported>>
    /\ UNCHANGED lastCloud
    /\ UNCHANGED lastReturn
    /\ UNCHANGED removed
    /\ UNCHANGED deleted
    /\ UNCHANGED early
    /\ UNCHANGED debounced

\* the 100 ms timer of the finally block fires
LoadTimer ==
    /\ loadPc = "timer"
    /\ loadPc' = "done"
    /\ initialLoadDone' = TRUE
    /\ UNCHANGED <<persistent, items, cloudEnabled, syncStatus, subscribed, pushDue>>
    /\ UNCHANGED <<loadQ, tasks, counters, history>>
    /\ UNCHANGED lastCloud
    /\ UNCHANGED lastReturn
    /\ UNCHANGED removed
    /\ UNCHANGED deleted
    /\ UNCHANGED early
    /\ UNCHANGED debounced

\* ============================================================ subscription
\* a callback that does not look at initialLoadDone
AcceptsAlways(flag, busy) == TRUE

\* a callback that also holds back while a handler is in flight
AcceptsWhenQuiet(flag, busy) == flag /\ ~busy

\* the test the snapshot callback makes before it touches the state
AcceptsSnapshot(flag, busy) == flag

\* a callback that merges per item: the items it holds stay as they are, the
\* snapshot's items with other ids are added
MergeById(current, snapshot) ==
    current \o SelectSeq(snapshot, LAMBDA x : x.id \notin Ids(current))

\* what the callback makes of the collection and the snapshot it is given
Merge(current, snapshot) == snapshot

\* a callback that also mirrors the snapshot into IndexedDB
MirrorsSnapshot(db, cloudItems) == Range(cloudItems)

\* What the object store holds once the callback has applied a snapshot: the
\* callback calls setItems and setSyncStatus and nothing else (315-316), no
\* saveItemsToDB and no function of the firebase.js adapter.
AfterSnapshot(db, cloudItems) == db

\* the items that are copies of documents: saveItemToCloud stamps what it
\* writes with updatedAt (line 76), and no other code sets that field
FromCollection(its) == {x \in Range(its) : x.updatedAt # 0}

\* onSnapshot calls back with every document of the collection, sorted
OnSnapshot ==
    /\ subscribed
    /\ pushDue
    /\ pushDue' = FALSE
    /\ localDB' = IF AcceptsSnapshot(initialLoadDone, ~AllIdle)
                  THEN AfterSnapshot(localDB, CloudSorted(remote))
                  ELSE localDB
    /\ LET cloudItems == CloudSorted(remote)
           busy == ~AllIdle
       IN  IF AcceptsSnapshot(initialLoadDone, busy)
           THEN /\ items' = Merge(items, cloudItems)
                /\ syncStatus' = "synced"
                /\ tasks' = Disturb(tasks, Merge(items, cloudItems) # items)
                /\ lastPush' = [kind |-> "applied", busy |-> busy]
           ELSE /\ lastPush' = [kind |-> "ignored", busy |-> busy]
                /\ UNCHANGED <<items, syncStatus, tasks>>
    /\ UNCHANGED <<configured, remote, blobs, legacy>>
    /\ UNCHANGED <<cloudEnabled, initialLoadDone, subscribed>>
    /\ UNCHANGED <<loader, counters>>
    /\ UNCHANGED <<startLocal, startRemote, startLegacy, prevRun, loadBranch, loadSnap, migrated, imported>>
    /\ lastCloud' = IF AcceptsSnapshot(initialLoadDone, ~AllIdle) THEN "ok" ELSE lastCloud
    /\ UNCHANGED lastReturn
    /\ removed' = IF AcceptsSnapshot(initialLoadDone, ~AllIdle)
                  THEN removed \cup (SetIds(FromCollection(items)) \ SetIds(remote))
                  ELSE removed
    /\ UNCHANGED deleted
    /\ UNCHANGED early
    /\ UNCHANGED debounced

\* ================================================================= reload
\* The page is loaded again (and unlocked): the component state starts
\* over, the effect cleanup unsubscribes, calls in flight are abandoned,
\* the stores keep what they hold.
Reload ==
    /\ session < MaxSessions
    /\ session' = session + 1
    /\ items' = <<>>
    /\ cloudEnabled' = FALSE
    /\ syncStatus' = "checking"
    /\ initialLoadDone' = FALSE
    /\ subscribed' = FALSE
    /\ pushDue' = FALSE
    /\ loadPc' = "persist"
    /\ loadQ' = <<>>
    /\ tasks' = [t \in Slots |-> Idle]
    /\ lastPush' = NoPush
    /\ startLocal' = localDB
    /\ startRemote' = remote
    /\ startLegacy' = legacy
    /\ prevRun' = IF loadPc = "done" /\ ops = 0 /\ lastPush.kind # "applied"
                  THEN [known |-> TRUE, items |-> items]
                  ELSE NoRun
    /\ loadBranch' = "none"
    /\ loadSnap' = <<>>
    /\ UNCHANGED <<persistent, nextId, ops, faults, migrated, imported>>
    /\ lastCloud' = "none"
    /\ lastReturn' = "none"
    /\ UNCHANGED removed
    /\ UNCHANGED deleted
    /\ early' = {}
    /\ UNCHANGED debounced

\* ================================================================ handlers
\* ---------------------------------------------------------------- inputs
\* noteText: a string over a blank and a letter
NoteInputs == {<<" ">>, <<" ", "a">>, [i \in 1..(MAX_NOTE_LENGTH + 1) |-> "a"]}

GoodFile == [size |-> 1, type |-> "image/png"]

BigFile == [size |-> MAX_FILE_SIZE + 1, type |-> "image/png"]

OddFile == [size |-> 1, type |-> "application/x-msdownload"]

\* a file the browser reports no type for (unknown extension)
BlankFile == [size |-> 1, type |-> ""]

FileInputs == {GoodFile, BigFile, OddFile, BlankFile}

\* a selection of several files: each one admissible or of a refused type
ManyFiles == UNION {[1..n -> {GoodFile, OddFile}] : n \in 2..MaxFiles}

\* e.target.files: one file of any kind, or two to MaxFiles files
FileLists == [1..1 -> FileInputs] \cup ManyFiles

\* String.prototype.trim
RECURSIVE TrimStart(_)
TrimStart(s) == IF s # <<>> /\ Head(s) = " " THEN TrimStart(Tail(s)) ELSE s

Trim(s) == Reverse(TrimStart(Reverse(TrimStart(s))))

\* validateFile(file), which reads the items of the render it was made in
validateFile(file, its) ==
    /\ ~(file.size > MAX_FILE_SIZE)
    /\ ~(file.type # "" /\ file.type \notin ALLOWED_FILE_TYPES)
    /\ ~(Len(its) >= MAX_ITEMS)

\* the tests handleAddNote makes before it builds the note
NoteAdmitted(trimmedNote, its) ==
    /\ trimmedNote # <<>>
    /\ ~(Len(trimmedNote) > MAX_NOTE_LENGTH)
    /\ ~(Len(its) >= MAX_ITEMS)

\* file.type || 'application/octet-stream'
StoredType(file) == IF file.type = "" THEN "application/octet-stream" ELSE file.type

\* a handler that puts the new item last
AppendLast(x, its) == Append(its, x)

\* [newItem, ...items]
Prepend(x, its) == <<x>> \o its

\* a toggle that marks the item important instead of flipping the flag
ToggleSets(its, id) ==
    [i \in 1..Len(its) |->
        IF its[i].id = id THEN [its[i] EXCEPT !.important = TRUE] ELSE its[i]]

\* items.map(item => item.id === id ? {...item, important: !item.important} : item)
ToggleIn(its, id) ==
    [i \in 1..Len(its) |->
        IF its[i].id = id THEN [its[i] EXCEPT !.important = ~its[i].important] ELSE its[i]]

\* items.filter(item => item.id !== id)
RECURSIVE Without(_, _)
Without(its, id) ==
    IF its = <<>> THEN <<>>
    ELSE (IF Head(its).id # id THEN <<Head(its)>> ELSE <<>>) \o Without(Tail(its), id)

\* items.find(item => item.id === id), for an id the list holds
Find(its, id) == its[CHOOSE i \in 1..Len(its) : its[i].id = id /\ \A j \in 1..(i - 1) : its[j].id # id]

\* handlers that update optimistically: setItems, then the cloud call
PublishesFirst(kind) == TRUE

\* Whether a handler calls setItems before its cloud call rather than after
\* it: in all of them the await of the cloud call comes first.
PublishesBeforeRemote(kind) == FALSE

\* --------------------------------------------------------- task bookkeeping
FreeSlot == CHOOSE t \in Slots : tasks[t].kind = "idle" /\ \A u \in 1..(t - 1) : tasks[u].kind # "idle"

\* n handlers in flight at most, m intents per behaviour at most
CanStart(n, m) == ops < m /\ Cardinality(InFlight) < n

RECURSIVE CountValid(_, _)
CountValid(files, its) ==
    IF files = <<>> THEN 0
    ELSE (IF validateFile(Head(files), its) THEN 1 ELSE 0) + CountValid(Tail(files), its)

\* ids the uploads in flight will still ask generateId for
Owed(k) ==
    IF k.kind # "file" THEN 0
    ELSE IF k.pc = "read" THEN CountValid(k.files, k.its)
    ELSE IF k.pc \in {"upload", "setDoc"} THEN CountValid(Tail(k.files), k.its)
    ELSE 0

RECURSIVE SumOwed(_)
SumOwed(S) == IF S = {} THEN 0 ELSE LET t == CHOOSE u \in S : TRUE IN Owed(tasks[t]) + SumOwed(S \ {t})

IdsLeft == MaxId + 1 - nextId - SumOwed(Slots)

Published(k) == \E i \in 1..Len(k.log) : k.log[i] = "publish"

\* setItems(newItems) followed by the call of saveItems / saveItemsToDB, up
\* to the first await inside saveItemsToDB
BeginSave(k, newItems) ==
    [k EXCEPT !.cur = newItems,
              !.pc = IF SaveCounts(newItems, k.force) THEN "dbCount" ELSE "dbWrite",
              !.log = IF Published(k) THEN k.log ELSE Append(k.log, "publish")]

\* the for loop of handleFileUpload up to its next await: files that fail
\* validateFile are skipped; the loop stops at a file to read, or ends
RECURSIVE DropRejected(_, _)
DropRejected(files, its) ==
    IF files = <<>> THEN <<>>
    ELSE IF validateFile(Head(files), its) THEN files
    ELSE DropRejected(Tail(files), its)

Loop(k) ==
    LET rest == DropRejected(k.files, k.its)
    IN  IF rest = <<>>
        THEN BeginSave([k EXCEPT !.files = <<>>, !.item = NoItem], k.cur)
        ELSE [k EXCEPT !.files = rest, !.pc = "read", !.item = NoItem]

\* the handler goes on after its cloud call returned (ok) or threw
Resume(k, ok) ==
    IF k.kind = "note" THEN BeginSave(k, IF Published(k) THEN k.cur ELSE Prepend(k.item, k.its))
    ELSE IF k.kind = "toggle" THEN BeginSave(k, k.cur)
    ELSE IF k.kind = "delete" THEN BeginSave(k, Without(k.its, k.item.id))
    ELSE Loop([k EXCEPT !.cur = Prepend(IF ok THEN CloudRecord(k.item) ELSE k.item, k.cur),
                        !.files = Tail(k.files)])

\* handlers whose catch block gives up: no setItems, no saveItems
CatchReturnsAlways(kind) == TRUE

\* Whether the catch block around a handler's cloud call returns from the
\* handler: none does, each only logs (and handleFileUpload falls back to
\* newItem).
CatchReturns(kind) == FALSE

\* the handler goes on after its cloud call threw
Caught(k) ==
    IF CatchReturns(k.kind) THEN Idle
    ELSE Resume([k EXCEPT !.log = Append(k.log, "failed")], FALSE)

Saving(k) == k.pc \in {"dbCount", "dbWrite"}

\* the state the component is left in when task t moves from k to k2
Step(t, k, k2) ==
    /\ tasks' = [tasks EXCEPT ![t] = k2]
    /\ items' = IF Published(k2) /\ ~Published(k) THEN k2.cur ELSE items
    /\ syncStatus' = IF Saving(k2) /\ ~Saving(k) /\ k.kind # "delete" THEN "syncing" ELSE syncStatus

\* the handler is called while loadItems has not called setItems yet, nor
\* found that there is nothing to adopt
BeforeAdoption == loadBranch = "none"

\* ----------------------------------------------------------------- starts
StartAddNote(n, m) ==
    /\ CanStart(n, m)
    /\ \E noteText \in NoteInputs :
        LET trimmedNote == Trim(noteText)
            t == FreeSlot
            newItem == Note(nextId, trimmedNote, FALSE, nextId, 0)
            k == [Idle EXCEPT !.kind = "note", !.its = items, !.ce = cloudEnabled,
                              !.item = newItem, !.pc = "start", !.early = BeforeAdoption]
            k2 == IF ~cloudEnabled THEN BeginSave(k, Prepend(newItem, items))
                  ELSE IF PublishesBeforeRemote("note")
                  THEN [k EXCEPT !.cur = Prepend(newItem, items), !.pc = "setDoc",
                                 !.log = <<"publish", "remote">>]
                  ELSE [k EXCEPT !.pc = "setDoc", !.log = <<"remote">>]
        IN  IF ~NoteAdmitted(trimmedNote, items)
            THEN UNCHANGED <<items, syncStatus, tasks, nextId, ops, early>>
            ELSE /\ IdsLeft >= 1
                 /\ nextId' = nextId + 1
                 /\ early' = IF BeforeAdoption THEN early \cup {nextId} ELSE early
                 /\ ops' = ops + 1
                 /\ Step(t, k, k2)
    /\ UNCHANGED <<persistent, cloudEnabled, initialLoadDone, subscribed, pushDue>>
    /\ UNCHANGED <<loader, session, faults>>
    /\ UNCHANGED <<lastPush, startLocal, startRemote, startLegacy, prevRun, loadBranch, loadSnap, migrated, imported>>
    /\ UNCHANGED lastCloud
    /\ UNCHANGED lastReturn
    /\ UNCHANGED removed
    /\ UNCHANGED deleted
    /\ UNCHANGED debounced

StartToggle(n, m) ==
    /\ CanStart(n, m)
    /\ \E id \in Ids(items) :
        LET t == FreeSlot
            newItems == ToggleIn(items, id)
            updatedItem == Find(newItems, id)
            k == [Idle EXCEPT !.kind = "toggle", !.its = items, !.ce = cloudEnabled,
                              !.item = updatedItem, !.cur = newItems, !.pc = "start"]
            k2 == IF ~cloudEnabled THEN BeginSave(k, newItems)
                  ELSE IF PublishesBeforeRemote("toggle")
                  THEN [k EXCEPT !.pc = CloudPc(updatedItem), !.log = <<"publish", "remote">>]
                  ELSE [k EXCEPT !.pc = CloudPc(updatedItem), !.log = <<"remote">>]
        IN  Step(t, k, k2)
    /\ ops' = ops + 1
    /\ UNCHANGED <<persistent, cloudEnabled, initialLoadDone, subscribed, pushDue>>
    /\ UNCHANGED <<loader, nextId, session, faults, history>>
    /\ UNCHANGED lastCloud
    /\ UNCHANGED lastReturn
    /\ UNCHANGED removed
    /\ UNCHANGED deleted
    /\ UNCHANGED early
    /\ UNCHANGED debounced

\* a deleteItem that saves without the force flag
DeleteUnforced == FALSE

\* the forceEmpty argument of saveItemsToDB(newItems, true) in deleteItem
DeleteForcesEmpty == TRUE

\* window.confirm was answered with OK
StartDelete(n, m) ==
    /\ CanStart(n, m)
    /\ \E id \in Ids(items) :
        LET t == FreeSlot
            itemToDelete == Find(items, id)
            k == [Idle EXCEPT !.kind = "delete", !.its = items, !.ce = cloudEnabled,
                              !.item = itemToDelete, !.force = DeleteForcesEmpty, !.pc = "start"]
            k2 == IF ~cloudEnabled THEN BeginSave(k, Without(items, id))
                  ELSE IF PublishesBeforeRemote("delete")
                  THEN [k EXCEPT !.cur = Without(items, id), !.pc = "deleteDoc",
                                 !.log = <<"publish", "remote">>]
                  ELSE [k EXCEPT !.pc = "deleteDoc", !.log = <<"remote">>]
        IN  Step(t, k, k2)
    /\ ops' = ops + 1
    /\ UNCHANGED <<persistent, cloudEnabled, initialLoadDone, subscribed, pushDue>>
    /\ UNCHANGED <<loader, nextId, session, faults, history>>
    /\ UNCHANGED lastCloud
    /\ UNCHANGED lastReturn
    /\ UNCHANGED removed
    /\ UNCHANGED deleted
    /\ UNCHANGED early
    /\ UNCHANGED debounced

StartUpload(n, m) ==
    /\ CanStart(n, m)
    /\ \E files \in FileLists :
        LET t == FreeSlot
            k == [Idle EXCEPT !.kind = "file", !.its = items, !.ce = cloudEnabled,
                              !.cur = items, !.files = files, !.pc = "start",
                              !.early = BeforeAdoption,
                              !.rejected = (CountValid(files, items) = 0)]
            k2 == Loop(k)
        IN  /\ IdsLeft >= CountValid(files, items)
            /\ tasks' = [tasks EXCEPT ![t] = k2]
            /\ items' = IF Published(k2) THEN k2.cur ELSE items
            /\ syncStatus' = "syncing"
    /\ ops' = ops + 1
    /\ UNCHANGED <<persistent, cloudEnabled, initialLoadDone, subscribed, pushDue>>
    /\ UNCHANGED <<loader, nextId, session, faults, history>>
    /\ UNCHANGED lastCloud
    /\ UNCHANGED lastReturn
    /\ UNCHANGED removed
    /\ UNCHANGED deleted
    /\ UNCHANGED early
    /\ UNCHANGED debounced

\* ------------------------------------------------------- awaits returning
\* the FileReader promise settles: the item is built, and either sent to
\* the cloud or put in front of currentItems
TaskRead(t, F) ==
    LET k == tasks[t] IN
    /\ k.pc = "read"
    /\ \E ok \in Outcomes(F) :
        LET file == Head(k.files)
            newItem == File(nextId, StoredType(file), "inline", FALSE, FALSE, nextId, 0)
            k1 == [k EXCEPT !.item = newItem]
            k2 == IF ~ok THEN Loop([k EXCEPT !.files = Tail(k.files)])
                  ELSE IF k.ce THEN [k1 EXCEPT !.pc = "upload", !.log = Append(k.log, "remote")]
                  ELSE Resume(k1, FALSE)
        IN  /\ faults' = Charge(ok)
            /\ nextId' = IF ok THEN nextId + 1 ELSE nextId
            /\ early' = IF ok /\ k.early THEN early \cup {nextId} ELSE early
            /\ Step(t, k, k2)
    /\ UNCHANGED <<persistent, cloudEnabled, initialLoadDone, subscribed, pushDue>>
    /\ UNCHANGED <<loader, session, ops, history>>
    /\ UNCHANGED lastCloud
    /\ UNCHANGED lastReturn
    /\ UNCHANGED removed
    /\ UNCHANGED deleted
    /\ UNCHANGED debounced

\* uploadBytes / getDownloadURL inside saveItemToCloud settle
TaskUpload(t, F) ==
    LET k == tasks[t] IN
    /\ k.pc = "upload"
    /\ \E ok \in Outcomes(F) :
        /\ faults' = Charge(ok)
        /\ lastCloud' = IF ok THEN lastCloud ELSE "failed"
        /\ blobs' = IF ok THEN blobs \cup {k.item.id} ELSE blobs
        /\ Step(t, k, IF ok THEN [k EXCEPT !.pc = "setDoc"] ELSE Caught(k))
    /\ UNCHANGED <<configured, remote, localDB, legacy>>
    /\ UNCHANGED <<cloudEnabled, initialLoadDone, subscribed, pushDue>>
    /\ UNCHANGED <<loader, nextId, session, ops, history>>
    /\ UNCHANGED lastReturn
    /\ UNCHANGED removed
    /\ UNCHANGED deleted
    /\ UNCHANGED early
    /\ UNCHANGED debounced

\* setDoc inside saveItemToCloud settles, and saveItemToCloud with it
TaskSetDoc(t, F) ==
    LET k == tasks[t] IN
    /\ k.pc = "setDoc"
    /\ \E ok \in Outcomes(F) :
        /\ faults' = Charge(ok)
        /\ lastCloud' = IF ok THEN "ok" ELSE "failed"
        /\ remote' = IF ok THEN SetDoc(remote, CloudRecord(k.item)) ELSE remote
        /\ pushDue' = IF ok THEN Notify ELSE pushDue
        /\ Step(t, k, IF ok THEN Resume(k, TRUE) ELSE Caught(k))
        /\ removed' = IF ok THEN removed \ {k.item.id} ELSE removed
    /\ UNCHANGED <<configured, blobs, localDB, legacy>>
    /\ UNCHANGED <<cloudEnabled, initialLoadDone, subscribed>>
    /\ UNCHANGED <<loader, nextId, session, ops, history>>
    /\ UNCHANGED lastReturn
    /\ UNCHANGED deleted
    /\ UNCHANGED early
    /\ UNCHANGED debounced

\* deleteDoc inside deleteItemFromCloud settles
TaskDeleteDoc(t, F) ==
    LET k == tasks[t] IN
    /\ k.pc = "deleteDoc"
    /\ \E ok \in Outcomes(F) :
        /\ faults' = Charge(ok)
        /\ lastCloud' = IF ~ok THEN "failed" ELSE IF HasBlobToDelete(k.item) THEN lastCloud ELSE "ok"
        /\ remote' = IF ok THEN DeleteDoc(remote, k.item.id) ELSE remote
        /\ pushDue' = IF ok /\ remote' # remote THEN Notify ELSE pushDue
        /\ Step(t, k, IF ~ok THEN Caught(k)
                      ELSE IF HasBlobToDelete(k.item)
                      THEN [k EXCEPT !.pc = "deleteObject"]
                      ELSE Resume(k, TRUE))
    /\ UNCHANGED <<configured, blobs, localDB, legacy>>
    /\ UNCHANGED <<cloudEnabled, initialLoadDone, subscribed>>
    /\ UNCHANGED <<loader, nextId, session, ops, history>>
    /\ UNCHANGED lastReturn
    /\ UNCHANGED removed
    /\ UNCHANGED deleted
    /\ UNCHANGED early
    /\ UNCHANGED debounced

\* deleteObject settles; its failure is caught inside deleteItemFromCloud
TaskDeleteObject(t, F) ==
    LET k == tasks[t] IN
    /\ k.pc = "deleteObject"
    /\ \E ok \in Outcomes(F) :
        /\ faults' = Charge(ok)
        /\ lastCloud' = "ok"
        /\ blobs' = IF ok THEN blobs \ {k.item.id} ELSE blobs
        /\ Step(t, k, Resume(k, TRUE))
    /\ UNCHANGED <<configured, remote, localDB, legacy>>
    /\ UNCHANGED <<cloudEnabled, initialLoadDone, subscribed, pushDue>>
    /\ UNCHANGED <<loader, nextId, session, ops, history>>
    /\ UNCHANGED lastReturn
    /\ UNCHANGED removed
    /\ UNCHANGED deleted
    /\ UNCHANGED early
    /\ UNCHANGED debounced

\* setSyncStatus in saveItems (after its try, or in its catch) and, for an
\* upload, the setSyncStatus that follows saveItems in handleFileUpload
StatusAfterSave(k, saved) ==
    IF k.kind = "delete" THEN syncStatus
    ELSE IF k.kind = "file" THEN (IF k.ce THEN "synced" ELSE "offline")
    ELSE IF saved THEN (IF k.ce THEN "synced" ELSE "offline")
    ELSE "offline"

\* saveItemsToDB has returned to a caller that is saveItems: the await of
\* getStorageEstimate is next; deleteItem just returns
AfterSaved(k) == IF k.kind = "delete" THEN Idle ELSE [k EXCEPT !.pc = "estimate"]

\* store.count() of saveItemsToDB([]) answers, or fails and is taken for an
\* answer of 0 (countRequest.onerror, line 53)
TaskDbCount(t, F) ==
    LET k == tasks[t] IN
    /\ k.pc = "dbCount"
    /\ \E ok \in Outcomes(F) :
        LET existingCount == IF ok THEN Cardinality(localDB) ELSE 0
        IN  /\ faults' = Charge(ok)
            /\ tasks' = [tasks EXCEPT ![t] =
                            IF SaveGuardSkips(k.cur, k.force, existingCount)
                            THEN AfterSaved(k)
                            ELSE [k EXCEPT !.pc = "dbWrite"]]
            /\ lastReturn' = IF SaveGuardSkips(k.cur, k.force, existingCount) /\ k.kind = "delete"
                             THEN "ok" ELSE lastReturn
            /\ deleted' = IF SaveGuardSkips(k.cur, k.force, existingCount) /\ k.kind = "delete"
                          THEN deleted \cup {k.item.id} ELSE deleted
    /\ UNCHANGED <<persistent, component, loader, history>>
    /\ UNCHANGED <<nextId, session, ops>>
    /\ UNCHANGED lastCloud
    /\ UNCHANGED removed
    /\ UNCHANGED early
    /\ UNCHANGED debounced

\* How a handler ends when saveItemsToDB rejects: saveItems catches the
\* error and shows 'Error saving items. Please try again.'; deleteItem awaits
\* saveItemsToDB outside any try, so its promise rejects with nobody
\* handling it and no notification is shown.
Rejection(kind) == IF kind = "delete" THEN "unhandled" ELSE "reported"

\* the readwrite transaction of saveItemsToDB completes or aborts; an abort
\* is caught by saveItems and rejects the promise of deleteItem
TaskDbWrite(t, F) ==
    LET k == tasks[t] IN
    /\ k.pc = "dbWrite"
    /\ \E ok \in Outcomes(F) :
        LET saved == ok /\ AddsSucceed(k.cur)
            k2 == [k EXCEPT !.log = Append(k.log, "local")]
        IN  /\ faults' = Charge(ok)
            /\ localDB' = IF saved THEN Range(k.cur) ELSE localDB
            /\ tasks' = [tasks EXCEPT ![t] = IF saved THEN AfterSaved(k2) ELSE Idle]
            /\ syncStatus' = IF saved THEN syncStatus ELSE StatusAfterSave(k, FALSE)
            /\ lastReturn' = IF saved THEN (IF k.kind = "delete" THEN "ok" ELSE lastReturn)
                             ELSE Rejection(k.kind)
            /\ removed' = IF saved THEN removed \ Ids(k.cur) ELSE removed
            /\ deleted' = IF saved /\ k.kind = "delete" THEN deleted \cup {k.item.id} ELSE deleted
    /\ UNCHANGED <<configured, remote, blobs, legacy>>
    /\ UNCHANGED <<items, cloudEnabled, initialLoadDone, subscribed, pushDue>>
    /\ UNCHANGED <<loader, nextId, session, ops, history>>
    /\ UNCHANGED lastCloud
    /\ UNCHANGED early
    /\ UNCHANGED debounced

\* getStorageEstimate answers: saveItems sets the status and returns, and
\* the handler after it
TaskEstimate(t) ==
    LET k == tasks[t] IN
    /\ k.pc = "estimate"
    /\ tasks' = [tasks EXCEPT ![t] = Idle]
    /\ syncStatus' = StatusAfterSave(k, TRUE)
    /\ UNCHANGED <<persistent, items, cloudEnabled, initialLoadDone, subscribed, pushDue>>
    /\ UNCHANGED <<loader, counters, history>>
    /\ UNCHANGED lastCloud
    /\ lastReturn' = "ok"
    /\ UNCHANGED removed
    /\ UNCHANGED deleted
    /\ UNCHANGED early
    /\ UNCHANGED debounced

\* ========================================================= specifications
\* One page load, with up to n handlers in flight, up to m intents, up to F
\* failing calls, the calls of the handlers failing only where G is positive.
Session(n, m, F, G) ==
    \/ LoadStart
    \/ LoadCloudRead(F)
    \/ LoadMirror(F)
    \/ LoadDbRead(F)
    \/ LoadPushUpload(F)
    \/ LoadPushSetDoc(F)
    \/ LoadMigrate(F)
    \/ LoadTimer
    \/ OnSnapshot
    \/ StartAddNote(n, m)
    \/ StartToggle(n, m)
    \/ StartDelete(n, m)
    \/ StartUpload(n, m)
    \/ \E t \in Slots : TaskRead(t, G)
    \/ \E t \in Slots : TaskUpload(t, G)
    \/ \E t \in Slots : TaskSetDoc(t, G)
    \/ \E t \in Slots : TaskDeleteDoc(t, G)
    \/ \E t \in Slots : TaskDeleteObject(t, G)
    \/ \E t \in Slots : TaskDbCount(t, G)
    \/ \E t \in Slots : TaskDbWrite(t, G)
    \/ \E t \in Slots : TaskEstimate(t)

\* one page load, one handler at a time, every call succeeding
Next == Session(1, MaxOps, 0, 0)

Spec == Init /\ [][Next]_vars

\* one page load, one handler at a time, calls may fail
NextFaulty == Session(1, MaxOps, MaxFaults, MaxFaults)

SpecFaulty == Init /\ [][NextFaulty]_vars

\* the same over the stores of a deployment that was upgraded
SpecUpgraded == InitUpgraded /\ [][Next]_vars

\* one page load, one handler at a time, the calls of loadItems may fail
NextLoadFaulty == Session(1, MaxOps, MaxFaults, 0)

SpecLoadFaulty == Init /\ [][NextLoadFaulty]_vars

\* the same, every promise loadItems awaits settling and its timer firing
LoadFairness ==
    /\ WF_vars(LoadStart)
    /\ WF_vars(LoadCloudRead(MaxFaults))
    /\ WF_vars(LoadMirror(MaxFaults))
    /\ WF_vars(LoadDbRead(MaxFaults))
    /\ WF_vars(LoadPushUpload(MaxFaults))
    /\ WF_vars(LoadPushSetDoc(MaxFaults))
    /\ WF_vars(LoadMigrate(MaxFaults))
    /\ WF_vars(LoadTimer)

SpecLoadLive == Init /\ [][NextLoadFaulty]_vars /\ LoadFairness

\* one page load, one handler at a time, the calls of the handlers may fail;
\* the stores start empty, with the collection filled, or with a local file
\* for loadItems to push
InitHandlerFaulty ==
    /\ Init
    /\ <<remote, localDB>> \in {<<{}, {}>>, <<{RemoteA, RemoteB}, {}>>, <<{}, {LocalB}>>}
    /\ legacy \in {LegacyAbsent, LegacyList(<<Entry(TRUE, TRUE, TRUE, LegacyA)>>)}

NextHandlerFaulty == Session(1, MaxOps, 0, MaxFaults)

SpecHandlerFaulty == InitHandlerFaulty /\ [][NextHandlerFaulty]_vars

\* several page loads, one handler at a time, every call succeeding
NextRestart == Session(1, MaxOps, 0, 0) \/ Reload

SpecRestart == Init /\ [][NextRestart]_vars

\* several page loads of a deployment without a Firebase configuration, where
\* loadItems reads the local stores only and no handler calls the cloud
InitOffline == Init /\ ~configured

NextOffline ==
    \/ LoadStart
    \/ LoadDbRead(0)
    \/ LoadMigrate(0)
    \/ LoadTimer
    \/ StartAddNote(1, MaxOps)
    \/ StartToggle(1, MaxOps)
    \/ StartDelete(1, MaxOps)
    \/ StartUpload(1, MaxOps)
    \/ \E t \in Slots : TaskRead(t, 0)
    \/ \E t \in Slots : TaskDbCount(t, 0)
    \/ \E t \in Slots : TaskDbWrite(t, 0)
    \/ \E t \in Slots : TaskEstimate(t)
    \/ Reload

SpecOffline == InitOffline /\ [][NextOffline]_vars

\* Another device that runs the app on the same collection deletes an item:
\* its deleteItemFromCloud removes the document and, for a cloud-stored
\* file, the object; the listener of this device is notified.
ForeignDelete ==
    /\ \E doc \in remote :
        /\ remote' = DeleteDoc(remote, doc.id)
        /\ blobs' = IF HasBlobToDelete(doc) THEN blobs \ {doc.id} ELSE blobs
    /\ pushDue' = Notify
    /\ UNCHANGED <<configured, localDB, legacy>>
    /\ UNCHANGED <<items, cloudEnabled, syncStatus, initialLoadDone, subscribed>>
    /\ UNCHANGED <<loader, tasks, counters, history>>
    /\ UNCHANGED <<lastCloud, lastReturn, removed, deleted, early>>
    /\ UNCHANGED debounced

\* several page loads of a device that shares its collection with another
NextShared == Session(1, MaxOps, 0, 0) \/ Reload \/ ForeignDelete

\* the collection holds documents when the first page load begins, and the
\* object store is still empty
InitShared == Init /\ (configured => (remote # {} /\ localDB = {}))

SpecShared == InitShared /\ [][NextShared]_vars

\* one page load, handlers overlapping
InitOverlap ==
    /\ Init
    /\ <<remote, localDB>> \in {<<{}, {}>>, <<{RemoteA}, {RemoteA}>>, <<{}, {LocalB}>>}
    /\ legacy \in {LegacyAbsent, LegacyList(<<Entry(TRUE, TRUE, TRUE, LegacyA)>>)}

NextOverlap == Session(MaxTasks, MaxTasks, 0, 0)

SpecOverlap == InitOverlap /\ [][NextOverlap]_vars

\* ================================================ the variant without sync
\* The per-record-database variant: when the user is authenticated one effect
\* runs loadItems, which reads IndexedDB, and another arms a timer that saves
\* the items 500 ms after they last changed.  Every openDatabase goes to the
\* connection queue of the database and every transaction covers the one
\* object store, so the reads and writes take effect in the order in which
\* their openDatabase was called.

\* the state that only the variant with sync has
syncOnly ==
    <<configured, remote, blobs, cloudEnabled, syncStatus, initialLoadDone, subscribed,
      pushDue, loadQ, tasks, session, faults, history, lastCloud, lastReturn,
      removed, deleted, early>>

\* setTimeout(saveItems, 500) in a render whose items are list
Arm(list) == [armed |-> TRUE, list |-> list]

Job(kind, list) == [kind |-> kind, list |-> list]

\* setItems with a new array: on the render that follows, the cleanup of the
\* save effect clears the timer that is armed and the effect arms a new one
SetItems(list) ==
    /\ items' = list
    /\ saveTimer' = Arm(list)

\* The state after setIsAuthenticated(true) and the effects of that render:
\* loadItems has called loadItemsFromDB, the timer is armed with items = [].
InitDebounced ==
    /\ configured = FALSE
    /\ remote = {}
    /\ blobs = {}
    /\ localDB \in SUBSET {LocalA, LocalB}
    /\ legacy \in LegacySeeds
    /\ items = <<>>
    /\ cloudEnabled = FALSE
    /\ syncStatus = "checking"
    /\ initialLoadDone = FALSE
    /\ subscribed = FALSE
    /\ pushDue = FALSE
    /\ loadPc = "dbRead"
    /\ loadQ = <<>>
    /\ tasks = [t \in Slots |-> Idle]
    /\ nextId = FirstFreeId
    /\ session = 1
    /\ ops = 0
    /\ faults = 0
    /\ lastPush = NoPush
    /\ startLocal = localDB
    /\ startRemote = remote
    /\ startLegacy = legacy
    /\ prevRun = NoRun
    /\ lastCloud = "none"
    /\ lastReturn = "none"
    /\ removed = {}
    /\ deleted = {}
    /\ early = {}
    /\ loadBranch = "none"
    /\ loadSnap = <<>>
    /\ migrated = FALSE
    /\ imported = 0
    /\ saveTimer = Arm(<<>>)
    /\ dbJobs = <<Job("load", <<>>)>>
    /\ readers = <<>>

\* the timer fires: saveItems calls saveItemsToDB(items) with the items of
\* the render that armed it, which calls openDatabase
DebounceFire ==
    /\ saveTimer.armed
    /\ saveTimer' = NoTimer
    /\ dbJobs' = Append(dbJobs, Job("save", saveTimer.list))
    /\ UNCHANGED <<items, readers, localDB, legacy, loadPc, nextId, ops>>
    /\ UNCHANGED syncOnly

\* the transaction of saveItemsToDB(items) completes: store.clear(), then
\* store.add of every item; a failing add aborts it and the store keeps
\* what it held
DebouncedSave ==
    /\ dbJobs # <<>>
    /\ Head(dbJobs).kind = "save"
    /\ localDB' = IF AddsSucceed(Head(dbJobs).list) THEN Range(Head(dbJobs).list) ELSE localDB
    /\ dbJobs' = Tail(dbJobs)
    /\ UNCHANGED <<items, saveTimer, readers, legacy, loadPc, nextId, ops>>
    /\ UNCHANGED syncOnly

\* loadItemsFromDB resolves: loadItems adopts the records, or turns to the
\* legacy key
DebouncedLoad ==
    /\ dbJobs # <<>>
    /\ Head(dbJobs).kind = "load"
    /\ LET dbItems == DBSorted(localDB)
           parsed == safeJSONParse(legacy)
       IN  IF Len(dbItems) > 0
           THEN /\ SetItems(dbItems)
                /\ dbJobs' = Tail(dbJobs)
                /\ loadPc' = "done"
           ELSE IF legacy.kind = "absent"
           THEN /\ dbJobs' = Tail(dbJobs)
                /\ loadPc' = "done"
                /\ UNCHANGED <<items, saveTimer>>
           ELSE /\ SetItems(parsed)
                /\ dbJobs' = IF Len(parsed) > 0
                             THEN Append(Tail(dbJobs), Job("migrate", parsed))
                             ELSE Tail(dbJobs)
                /\ loadPc' = IF Len(parsed) > 0 THEN "migrate" ELSE "done"
    /\ UNCHANGED <<readers, localDB, legacy, nextId, ops>>
    /\ UNCHANGED syncOnly

\* await saveItemsToDB(parsed) of loadItems returns, and the key is removed,
\* or throws
DebouncedMigrate ==
    /\ dbJobs # <<>>
    /\ Head(dbJobs).kind = "migrate"
    /\ LET saved == AddsSucceed(Head(dbJobs).list)
       IN  /\ localDB' = IF saved THEN Range(Head(dbJobs).list) ELSE localDB
           /\ legacy' = IF saved THEN AfterMigration(legacy) ELSE legacy
    /\ dbJobs' = Tail(dbJobs)
    /\ loadPc' = "done"
    /\ UNCHANGED <<items, saveTimer, readers, nextId, ops>>
    /\ UNCHANGED syncOnly

\* handleAddNote: setItems(prev => [newItem, ...prev])
DebouncedAddNote ==
    /\ ops < MaxOps
    /\ nextId <= MaxId
    /\ \E noteText \in NoteInputs :
        IF NoteAdmitted(Trim(noteText), items)
        THEN /\ SetItems(Prepend(Note(nextId, Trim(noteText), FALSE, nextId, 0), items))
             /\ nextId' = nextId + 1
             /\ ops' = ops + 1
        ELSE UNCHANGED <<items, saveTimer, nextId, ops>>
    /\ UNCHANGED <<dbJobs, readers, localDB, legacy, loadPc>>
    /\ UNCHANGED syncOnly

\* toggleImportant: setItems(prev => prev.map(...))
DebouncedToggle ==
    /\ ops < MaxOps
    /\ \E id \in Ids(items) : SetItems(ToggleIn(items, id))
    /\ ops' = ops + 1
    /\ UNCHANGED <<dbJobs, readers, localDB, legacy, loadPc, nextId>>
    /\ UNCHANGED syncOnly

\* deleteItem, confirmed: setItems(prev => prev.filter(...))
DebouncedDelete ==
    /\ ops < MaxOps
    /\ \E id \in Ids(items) : SetItems(Without(items, id))
    /\ ops' = ops + 1
    /\ UNCHANGED <<dbJobs, readers, localDB, legacy, loadPc, nextId>>
    /\ UNCHANGED syncOnly

\* handleFileUpload: a FileReader is started for every file that passes
\* validateFile
DebouncedUpload ==
    /\ ops < MaxOps
    /\ \E files \in FileLists :
        /\ nextId + Len(readers) + CountValid(files, items) <= MaxId + 1
        /\ readers' = readers \o SelectSeq(files, LAMBDA f : validateFile(f, items))
    /\ ops' = ops + 1
    /\ UNCHANGED <<items, saveTimer, dbJobs, localDB, legacy, loadPc, nextId>>
    /\ UNCHANGED syncOnly

\* reader.onload of one of them: setItems(prev => [newItem, ...prev])
DebouncedReaderLoad ==
    /\ \E i \in 1..Len(readers) :
        /\ SetItems(Prepend(File(nextId, StoredType(readers[i]), "inline", FALSE, FALSE, nextId, 0),
                            items))
        /\ readers' = SubSeq(readers, 1, i - 1) \o SubSeq(readers, i + 1, Len(readers))
    /\ nextId' = nextId + 1
    /\ UNCHANGED <<dbJobs, localDB, legacy, loadPc, ops>>
    /\ UNCHANGED syncOnly

NextDebounced ==
    \/ DebounceFire
    \/ DebouncedSave
    \/ DebouncedLoad
    \/ DebouncedMigrate
    \/ DebouncedAddNote
    \/ DebouncedToggle
    \/ DebouncedDelete
    \/ DebouncedUpload
    \/ DebouncedReaderLoad

SpecDebounced == InitDebounced /\ [][NextDebounced]_vars

\* ============================================================== properties
\* loadItems has passed its last await and no handler has been started
StartupOver == loadPc \in {"timer", "done"} /\ ops = 0

\* the step is a delivery of a snapshot to the callback
Delivery == subscribed /\ pushDue /\ ~pushDue' /\ session' = session

\* C1: when Firebase is configured and the collection held documents when
\* the page was loaded, then once loadItems is through (and before any
\* handler runs) the items are those documents as loadItemsFromCloud sorts
\* them and the local store holds exactly those documents, whatever it held
\* before.
C1_StartupPrecedence ==
    (configured /\ StartupOver /\ startRemote # {})
        => /\ loadBranch = "cloud"
           /\ items = CloudSorted(startRemote)
           /\ localDB = startRemote

\* C1 witness: startup is over, the local store began non-empty and
\* different from the collection, and both items and store are the collection
C1_Witness ==
    /\ configured /\ StartupOver /\ loadPc = "done"
    /\ startRemote = {RemoteA}
    /\ startLocal = {LocalA, LocalB}
    /\ items = <<RemoteA>>
    /\ localDB = {RemoteA}

\* a step of loadItems
LoadStep == session' = session /\ <<loadPc, loadQ>> # <<loadPc', loadQ'>>

\* C2: no step of loadItems, whichever branch it takes and whichever of its
\* calls fail, turns a non-empty local store into an empty one (it writes
\* the store only with a non-empty list); and a saveItemsToDB([]) without
\* forceEmpty whose count finds records in the store returns without a
\* write: the store is unchanged and no write transaction is begun, and a
\* write transaction for an unforced empty list is begun only after a count
\* of 0.
C2_EmptyOverwriteGuard ==
    [][/\ LoadStep => (localDB' # localDB => localDB' # {})
       /\ \A t \in Slots :
            /\ (tasks[t].pc = "dbCount" /\ tasks'[t] # tasks[t] /\ localDB # {})
                    => (tasks'[t].pc # "dbWrite" /\ localDB' = localDB)
            /\ (tasks'[t].pc = "dbWrite" /\ tasks[t].pc # "dbWrite"
                    /\ tasks'[t].cur = <<>> /\ ~tasks'[t].force)
                    => (tasks[t].pc = "dbCount" /\ localDB = {})]_vars

\* C2 witness: a saveItemsToDB([]) has returned from its count, without a
\* write, over a store that holds records, after loadItemsFromCloud failed or
\* found nothing
C2_Witness ==
    /\ configured /\ loadPc = "done" /\ loadBranch = "localPush"
    /\ localDB = startLocal /\ localDB # {}
    /\ \E t \in Slots :
        /\ tasks[t].kind = "file" /\ tasks[t].pc = "estimate"
        /\ tasks[t].cur = <<>> /\ tasks[t].log = <<"publish">>

\* C3: a snapshot delivered while initialLoadDone is false changes neither
\* the items nor the sync status, whatever the snapshot holds and wherever
\* loadItems stands.
C3_PushOrderingGuard ==
    [][(Delivery /\ ~initialLoadDone) => (items' = items /\ syncStatus' = syncStatus)]_vars

\* C3 witness: a snapshot that differs from the items was ignored while
\* loadItems was waiting for its read, and the flag is still false
C3_Witness ==
    /\ lastPush.kind = "ignored" /\ ~initialLoadDone
    /\ loadPc = "cloudRead"
    /\ CloudSorted(remote) # items
    /\ syncStatus = "syncing"

\* C4: the items never number more than MAX_ITEMS.
C4_SizeInvariant == Len(items) <= MAX_ITEMS

\* the events of a handler's log
Events(k) == {k.log[i] : i \in 1..Len(k.log)}

\* C5: an upload none of whose files passes validateFile changes nothing: no
\* step it takes changes the items, and it neither writes the local store
\* nor calls the cloud.  (A rejected note takes no step at all.)
C5_RejectedIsNoOp ==
    [][\A t \in Slots :
        (tasks[t].rejected /\ tasks'[t].pc # tasks[t].pc)
            => /\ items' = items
               /\ tasks'[t].kind # "idle" => Events(tasks'[t]) \cap {"local", "remote"} = {}]_vars

\* event a comes before event b wherever both are in the log
Before(k, a, b) ==
    \A i, j \in 1..Len(k.log) : (k.log[i] = a /\ k.log[j] = b) => i < j

Publishing(t) ==
    /\ tasks'[t].kind # "idle"
    /\ Published(tasks'[t]) /\ ~Published(tasks[t])

\* what handler k would publish if it worked from the list its
RECURSIVE NewOnes(_, _)
NewOnes(cur, its) ==
    IF Len(cur) <= Len(its) THEN <<>> ELSE <<Head(cur)>> \o NewOnes(Tail(cur), its)

FromList(k, its) ==
    IF k.kind = "note" THEN Prepend(k.item, its)
    ELSE IF k.kind = "toggle" THEN ToggleIn(its, k.item.id)
    ELSE IF k.kind = "delete" THEN Without(its, k.item.id)
    ELSE NewOnes(k.cur, k.its) \o its

\* C7: a handler publishes its change applied to the items as they are when
\* it calls setItems, so of two handlers that overlap neither undoes the
\* other (handlers whose captured list was replaced by loadItems or by a
\* snapshot in the meantime are left aside).
C7_NoLostUpdate ==
    [][\A t \in Slots :
        (Publishing(t) /\ ~tasks'[t].disturbed) => items' = FromList(tasks'[t], items)]_vars

\* C8 as stated: a snapshot delivered while a handler is in flight does not
\* change the items.
C8_PushHeldBackWhileBusy ==
    [][(Delivery /\ ~AllIdle) => items' = items]_vars

\* C8 amended: a snapshot delivered while a handler is in flight is treated
\* like any other: it replaces the items when initialLoadDone is set, and is
\* dropped when it is not.
C8_PushMergedWhileBusy ==
    [][(Delivery /\ ~AllIdle) =>
        /\ initialLoadDone => (items' = CloudSorted(remote) /\ lastPush'.kind = "applied")
        /\ ~initialLoadDone => (items' = items /\ lastPush'.kind = "ignored")]_vars

\* C8 witness: a snapshot was applied while a handler was in flight, and
\* replaced the list that handler had captured
C8_Witness ==
    /\ lastPush = [kind |-> "applied", busy |-> TRUE]
    /\ \E t \in Slots :
        /\ tasks[t].kind # "idle" /\ tasks[t].disturbed
        /\ tasks[t].its # items
        /\ items = CloudSorted(remote)

\* C9: a snapshot delivered once initialLoadDone is set makes the items the
\* snapshot, nothing of the former items kept and nothing merged per item,
\* and the sync status synced.
C9_WholesaleMerge ==
    [][(Delivery /\ initialLoadDone) =>
        /\ items' = CloudSorted(remote)
        /\ Range(items') = remote
        /\ syncStatus' = "synced"]_vars

\* C9 witness: loadItems adopted the local records and uploaded them, and
\* the snapshot that followed replaced them by the documents
C9_Witness ==
    /\ lastPush.kind = "applied" /\ ops = 0
    /\ loadBranch = "localPush"
    /\ items # DBSorted(startLocal)
    /\ Ids(items) = SetIds(startLocal)
    /\ items = CloudSorted(remote)
    /\ syncStatus = "synced"

\* C10: once loadItems has saved a legacy list it adopted and gone on, the
\* legacy key is absent, and no later loadItems adopts anything from the
\* legacy key, whatever the local store holds then.
C10_LegacyImportOnce ==
    [][/\ migrated' => legacy'.kind = "absent"
       /\ migrated => imported' = imported]_vars

\* C10 witness: the legacy list was imported in the first page load, the
\* local store was emptied, and the second page load ended with no items
C10_Witness ==
    /\ migrated /\ imported = 1 /\ session = 2
    /\ loadPc = "done" /\ loadBranch = "empty"
    /\ localDB = {} /\ startLocal = {}
    /\ items = <<>>

\* the legacy key held, when the page was loaded, a non-empty list all of
\* whose entries are well-formed records
LegacyListAtStart ==
    /\ startLegacy.kind = "list"
    /\ startLegacy.list # <<>>
    /\ \A i \in 1..Len(startLegacy.list) : WellFormed(startLegacy.list[i])

\* C11: when the local store and the collection were both empty at page load
\* (Firebase configured or not) and the legacy key held a list of well-formed
\* records, then once loadItems is through the items are that list, the
\* local store holds its records and the legacy key is gone.
C11_LegacyPostcondition ==
    (StartupOver /\ startLocal = {} /\ startRemote = {} /\ LegacyListAtStart)
        => /\ items = safeJSONParse(startLegacy)
           /\ localDB = Range(items)
           /\ legacy.kind = "absent"

\* C12: when loadItems has run to its end twice in a row, on two page loads
\* with no handler and no applied snapshot in between or after, the items
\* after the second run are the items after the first, field for field
\* (data representation and isCloudStored included).
C12_ReconcileIdempotent ==
    (prevRun.known /\ loadPc = "done" /\ ops = 0 /\ lastPush.kind # "applied")
        => items = prevRun.items

\* C13: whenever saveItemToCloud succeeded for an item, the items' copy of
\* it afterwards is the record saveItemToCloud returned: after the startup
\* push of the local items, and after an add-note or a toggle that nothing
\* interleaved with.
C13_UpsertResultAdopted ==
    /\ (StartupOver /\ loadBranch = "localPush" /\ lastPush.kind # "applied")
            => Range(items) = {CloudRecord(x) : x \in startLocal}
    /\ \A t \in Slots :
            LET k == tasks[t]
            IN  (/\ k.kind \in {"note", "toggle"}
                 /\ k.pc = "estimate"
                 /\ k.ce
                 /\ ~k.disturbed
                 /\ loadPc = "done"
                 /\ k.item.id \in Ids(items))
                    => Find(items, k.item.id) = CloudRecord(k.item)

\* the step is the failure of the cloud call of the handler in slot t
\* (uploadBytes, setDoc or deleteDoc threw; a deleteObject that throws is
\* caught inside deleteItemFromCloud)
RemoteFails(t) ==
    /\ tasks[t].pc \in {"upload", "setDoc", "deleteDoc"}
    /\ faults' = faults + 1
    /\ tasks'[t].pc # tasks[t].pc

\* the list a handler publishes, from the list it captured
Effect(k) ==
    IF k.kind = "note" THEN Prepend(k.item, k.its)
    ELSE IF k.kind = "toggle" THEN ToggleIn(k.its, k.item.id)
    ELSE Without(k.its, k.item.id)

\* C14: when the cloud call of a handler fails, the handler still applies
\* its change: add-note, toggle and delete publish the changed list in that
\* step and start saving it, an upload puts the local item in front of its
\* list (and publishes it once the last file is through); and the save that
\* follows writes exactly that list to the local store.
C14_RemoteFailureKeepsEffect ==
    [][\A t \in Slots :
        LET k == tasks[t]
            k2 == tasks'[t]
        IN  /\ RemoteFails(t) =>
                /\ k2.kind = k.kind
                /\ "failed" \in Events(k2)
                /\ IF k.kind = "file"
                   THEN /\ k2.cur = Prepend(k.item, k.cur)
                        /\ Saving(k2) => items' = k2.cur
                   ELSE /\ Saving(k2)
                        /\ k2.cur = Effect(k)
                        /\ items' = Effect(k)
            /\ (k.pc = "dbCount" /\ "failed" \in Events(k) /\ k2.pc # k.pc)
                    => k2.pc = "dbWrite"
            /\ (k.pc = "dbWrite" /\ "failed" \in Events(k) /\ k2.pc # k.pc /\ faults' = faults)
                    => localDB' = Range(k.cur)]_vars

\* an add-note whose setDoc failed has published the note and saved it
C14_Witness ==
    \E t \in Slots :
        /\ tasks[t].kind = "note"
        /\ tasks[t].log = <<"remote", "failed", "publish", "local">>
        /\ tasks[t].pc = "estimate"
        /\ items # <<>> /\ Head(items) = tasks[t].item
        /\ localDB = Range(items)
        /\ tasks[t].item.id \notin SetIds(remote)

\* C15: whenever syncStatus is 'synced', Firebase is configured and the
\* last call of the cloud adapter (read of the collection, save of an item,
\* delete of an item), if there was one, did not fail: after a failed call
\* the status is not 'synced' until a later call succeeds or a snapshot is
\* delivered.
C15_SyncedMeansLastCloudOk ==
    syncStatus = "synced" => (configured /\ lastCloud # "failed")

\* a call of the cloud adapter is pending in loadItems or in a handler
CloudCallPending ==
    \/ loadPc \in {"cloudRead", "upload", "setDoc"}
    \/ \E t \in Slots : tasks[t].pc \in {"upload", "setDoc", "deleteDoc", "deleteObject"}

\* C16: without a Firebase configuration nothing of the session reaches the
\* cloud: cloudEnabled stays false, no listener is registered, no read, save
\* or delete of the adapter is pending or has been made by loadItems or by
\* any handler, and the collection and the bucket stay empty; and with any
\* configuration no such call and no listener comes before the call of
\* checkFirebaseConfig in loadItems.
C16_UnconfiguredIsOffline ==
    /\ ~configured =>
        /\ ~cloudEnabled /\ ~subscribed /\ ~pushDue
        /\ ~CloudCallPending
        /\ lastCloud = "none"
        /\ \A t \in Slots : ~tasks[t].ce /\ "remote" \notin Events(tasks[t])
        /\ loadBranch \notin {"cloud", "localPush"}
        /\ remote = {} /\ blobs = {}
    /\ loadPc = "persist" => (~CloudCallPending /\ lastCloud = "none" /\ ~subscribed)

\* offline, a handler has changed the items and saved them locally
C16_Witness ==
    /\ ~configured
    /\ loadPc = "done" /\ ops = 1 /\ AllIdle
    /\ items # <<>> /\ localDB = Range(items)
    /\ syncStatus = "offline"

\* C17: when a deleteItem that ran with cloud sync on, and that no setItems
\* of loadItems or of the listener interleaved with, completes, it made one
\* call of deleteItemFromCloud, the item is absent from the items and from
\* the local store, the local store holds exactly the remaining items, and
\* when the item was the only one the local store has been emptied (the
\* guard of saveItemsToDB did not skip the write).
C17_DeletePostcondition ==
    [][\A t \in Slots :
        LET k == tasks[t]
        IN  (/\ k.kind = "delete"
             /\ k.ce
             /\ ~k.disturbed
             /\ tasks'[t].kind = "idle"
             /\ session' = session)
                => /\ k.pc = "dbWrite"
                   /\ k.log = <<"remote", "publish">>
                   /\ k.item.id \notin Ids(items')
                   /\ k.item.id \notin SetIds(localDB')
                   /\ localDB' = Range(Without(k.its, k.item.id))
                   /\ Len(k.its) = 1 => (items' = <<>> /\ localDB' = {})]_vars

\* the only item, adopted from the cloud and mirrored locally, was deleted
C17_Witness ==
    /\ configured
    /\ startRemote = {RemoteA}
    /\ loadBranch = "cloud" /\ loadPc = "done"
    /\ ops = 1 /\ AllIdle
    /\ items = <<>> /\ localDB = {} /\ remote = {}

\* C18: when the save of an admitted handleAddNote that ran with cloud sync
\* on, and that no setItems of loadItems or of the listener interleaved
\* with, has written the local store, the items are the list the handler
\* started from with one item more, put first: a note with the trimmed,
\* non-empty text and important = false; saveItemToCloud was called once,
\* for that note, and the local store holds exactly the new list.
C18_AddNotePostcondition ==
    [][\A t \in Slots :
        LET k == tasks[t]
        IN  (/\ k.kind = "note"
             /\ k.ce
             /\ ~k.disturbed
             /\ k.pc = "dbWrite"
             /\ tasks'[t].pc = "estimate")
                => /\ items' = <<k.item>> \o k.its
                   /\ k.item.id \notin Ids(k.its)
                   /\ k.item.type = "note"
                   /\ k.item.content # <<>> /\ Trim(k.item.content) = k.item.content
                   /\ ~k.item.important
                   /\ k.log = <<"remote", "publish">>
                   /\ CloudRecord(k.item) \in remote'
                   /\ localDB' = Range(items')]_vars

\* a note was added in front of an item adopted from the cloud
C18_Witness ==
    \E t \in Slots :
        /\ tasks[t].kind = "note" /\ tasks[t].ce /\ ~tasks[t].disturbed
        /\ tasks[t].pc = "estimate"
        /\ tasks[t].its = <<RemoteA>>
        /\ items = <<tasks[t].item, RemoteA>>
        /\ localDB = Range(items)

\* C19: no two of the items have the same id, whatever loadItems (a legacy
\* import of a list with repeated ids included), the handlers and the
\* listener have done.
C19_UniqueIds == Cardinality(Ids(items)) = Len(items)

\* C20: the items are always in descending order of createdAt, newest first
\* (ties in any order): after loadItems adopted the cloud documents, after a
\* delivered snapshot, after a legacy import, after every handler.
C20_NewestFirst ==
    \A i \in 1..Len(items) : \A j \in 1..Len(items) :
        i < j => items[i].createdAt >= items[j].createdAt

\* a file record has isCloudStored set exactly when its data is a download
\* URL, and unset exactly when its data is a data: URL
OneRepresentation(x) ==
    x.type = "file" =>
        /\ x.isCloudStored <=> x.data = "url"
        /\ ~x.isCloudStored <=> x.data = "inline"

\* C21: every file among the items, in the local store and in the cloud
\* collection has isCloudStored true exactly when its data is a download URL
\* and false exactly when its data is inline.
C21_PayloadRepresentation ==
    \A x \in Range(items) \cup localDB \cup remote : OneRepresentation(x)

\* a file uploaded in this session is held in its cloud form by the items,
\* the local store and the collection
C21_Witness ==
    \E x \in Range(items) :
        /\ x.type = "file" /\ x.id >= FirstFreeId
        /\ x.isCloudStored /\ x.data = "url"
        /\ x \in remote /\ x \in localDB

\* the step is the failure of the IndexedDB write of the handler in slot t
LocalWriteFails(t) ==
    /\ tasks[t].pc = "dbWrite"
    /\ tasks'[t].pc # "dbWrite"
    /\ faults' = faults + 1 \/ ~AddsSucceed(tasks[t].cur)

\* C22: when the IndexedDB write of a handler (add note, upload, toggle,
\* delete) fails, the handler reports the failure to the user and returns
\* without an unhandled rejection, and the items keep the list the handler
\* published.
C22_LocalFaultContained ==
    [][\A t \in Slots :
        LocalWriteFails(t)
            => /\ lastReturn' = "reported"
               /\ ~tasks[t].disturbed => items' = tasks[t].cur]_vars

\* C23: every file among the items that an upload of this session created
\* has a fileType of ALLOWED_FILE_TYPES; a file whose type is not in the
\* list, the empty type included, never gets in.
C23_MediaTypeAdmission ==
    \A x \in Range(items) :
        (x.type = "file" /\ x.id >= FirstFreeId) => x.fileType \in ALLOWED_FILE_TYPES

\* C24: once a loadItems that read the legacy key (no Firebase
\* configuration, local store empty, key present) is through, the key is
\* absent, also when the value did not parse or every entry was dropped.
C24_LegacyKeyErased ==
    (/\ ~configured
     /\ loadPc \in {"timer", "done"}
     /\ loadBranch # "error"
     /\ startLocal = {}
     /\ startLegacy.kind # "absent")
        => legacy.kind = "absent"

\* the records of the entries of the legacy list that are objects with an id
\* and a string type, in the order of the list
Adoptable(value) ==
    LET kept == SelectSeq(value.list, LAMBDA e : e.isObject /\ e.hasId /\ e.typeIsString)
    IN  IF value.kind = "list" THEN [i \in 1..Len(kept) |-> kept[i].item] ELSE <<>>

\* C25: when loadItems finds no Firebase configuration and an empty local
\* store, the items it publishes are exactly the records of the legacy list
\* that are objects with an id and a string type, in their order; a value
\* that does not parse to a list gives no items and no error: loadItems ends
\* as it does with nothing to import.
C25_LegacyValidation ==
    (~configured /\ startLocal = {} /\ ops = 0 /\ loadPc \in {"migrate", "timer", "done"})
        => /\ items = Adoptable(startLegacy)
           /\ startLegacy.kind = "garbage" =>
                (items = <<>> /\ loadBranch = "empty" /\ syncStatus = "offline")

\* a list whose first entry has no id was imported without that entry
C25_Witness ==
    /\ ~configured /\ startLocal = {}
    /\ startLegacy.kind = "list" /\ Len(startLegacy.list) = 2
    /\ ~WellFormed(startLegacy.list[1]) /\ WellFormed(startLegacy.list[2])
    /\ loadPc = "done" /\ ops = 0
    /\ items = <<startLegacy.list[2].item>>

\* C26: when loadItems found the collection empty, adopted the records of
\* the local store and pushed them one at a time, then once it is through
\* every local record is in the collection except those whose own
\* saveItemToCloud failed: a failed call costs the collection one record at
\* most.
C26_PushToleratesFailure ==
    (/\ configured
     /\ StartupOver
     /\ startRemote = {}
     /\ startLocal # {}
     /\ items = DBSorted(startLocal))
        => Cardinality(SetIds(startLocal) \cap SetIds(remote))
                >= Cardinality(startLocal) - faults

\* C27: whenever syncStatus is 'syncing', Firebase is configured and a call
\* of the cloud adapter is pending; and once loadItems is through and no
\* handler is running, syncStatus is 'synced' or 'offline'.
C27_SyncingMeansInFlight ==
    /\ syncStatus = "syncing" => (configured /\ CloudCallPending)
    /\ (loadPc = "done" /\ AllIdle) => syncStatus \in {"synced", "offline"}

\* C28: deleteItemFromCloud calls deleteDoc first; when deleteDoc fails the
\* call fails, nothing is deleted and deleteObject is not called; when
\* deleteDoc succeeds the document is gone, deleteObject is called exactly
\* for a file with isCloudStored set, and the call succeeds whether
\* deleteObject succeeds (the object is gone) or fails (it stays).
C28_BlobDeleteBestEffort ==
    [][\A t \in Slots :
        LET k == tasks[t]
            k2 == tasks'[t]
            failed == faults' = faults + 1
        IN  /\ (k.pc = "deleteDoc" /\ k2.pc # "deleteDoc") =>
                IF failed
                THEN /\ "failed" \in Events(k2) /\ lastCloud' = "failed"
                     /\ k2.pc # "deleteObject"
                     /\ remote' = remote /\ blobs' = blobs
                ELSE /\ k.item.id \notin SetIds(remote')
                     /\ blobs' = blobs
                     /\ k2.pc = "deleteObject" <=> (k.item.type = "file" /\ k.item.isCloudStored)
                     /\ k2.pc # "deleteObject" => ("failed" \notin Events(k2) /\ lastCloud' = "ok")
            /\ (k.pc = "deleteObject" /\ k2.pc # "deleteObject") =>
                /\ "failed" \notin Events(k2) /\ lastCloud' = "ok"
                /\ Saving(k2)
                /\ remote' = remote
                /\ blobs' = IF failed THEN blobs ELSE blobs \ {k.item.id}]_vars

\* a delete goes on although deleteObject failed: the document is gone and
\* the object is still in the bucket
C28_Witness ==
    \E t \in Slots :
        /\ tasks[t].kind = "delete" /\ Saving(tasks[t])
        /\ tasks[t].log = <<"remote", "publish">>
        /\ faults = 1 /\ lastCloud = "ok"
        /\ tasks[t].item.id \in blobs
        /\ tasks[t].item.id \notin SetIds(remote)

\* the record is a file that carries its bytes as a data: URL
InlineFile(x) == x.type = "file" /\ x.data = "inline"

\* C29: saveItemToCloud uploads only a file with inline data, and uploads
\* it before it writes the document: a failed upload writes no document and
\* fails the call; the document written for such a file has the download
\* URL as data, isCloudStored set and updatedAt stamped, and is the record
\* handleFileUpload gets back; for a note or a cloud-stored file the
\* document is the item with updatedAt stamped and nothing else changed.
C29_UploadBeforeDocument ==
    [][\A t \in Slots :
        LET k == tasks[t]
            k2 == tasks'[t]
            failed == faults' = faults + 1
            x == k.item
        IN  /\ k.pc \in {"upload", "setDoc"} =>
                /\ k.pc = "upload" => InlineFile(x)
                /\ (k.pc = "setDoc" /\ InlineFile(x)) => x.id \in blobs
            /\ (k.pc = "upload" /\ k2.pc # "upload") =>
                /\ remote' = remote
                /\ IF failed
                   THEN blobs' = blobs /\ k2.pc # "setDoc" /\ "failed" \in Events(k2)
                   ELSE blobs' = blobs \cup {x.id} /\ k2.pc = "setDoc"
            /\ (k.pc = "setDoc" /\ k2.pc # "setDoc" /\ ~failed) =>
                LET rec == IF InlineFile(x)
                           THEN [x EXCEPT !.data = "url", !.isCloudStored = TRUE, !.updatedAt = 1]
                           ELSE [x EXCEPT !.updatedAt = 1]
                IN  /\ rec \in remote'
                    /\ \A d \in remote' : d.id = x.id => d = rec
                    /\ k.kind = "file" => Head(k2.cur) = rec
            /\ (k.pc = "setDoc" /\ k2.pc # "setDoc" /\ failed) => remote' = remote]_vars

\* the file of an upload is in the bucket and its document is not yet written
C29_Witness ==
    \E t \in Slots :
        /\ tasks[t].kind = "file" /\ tasks[t].pc = "setDoc"
        /\ tasks[t].item.data = "inline"
        /\ tasks[t].item.id \in blobs
        /\ tasks[t].item.id \notin SetIds(remote)

\* C30: initialLoadDone is never set while loadItems has a step left (its
\* reads, its local writes, each saveItemToCloud of the push, its timer), and
\* on every path, the failing ones included, it is set in the end.
C30_InitialLoadFlag ==
    /\ [](initialLoadDone => loadPc = "done")
    /\ <>initialLoadDone

\* the flag is set after a loadItems one of whose calls failed
C30_Witness ==
    /\ initialLoadDone
    /\ loadBranch = "error" /\ faults = 1
    /\ syncStatus = "offline"

\* C31: a snapshot delivered to the callback changes the component only: the
\* items and the sync status when it is applied, nothing when it is dropped.
\* The object store, the collection, the bucket and the legacy key keep what
\* they hold, loadItems and every handler in flight stay at the await they
\* are at, so the object store differs from the items until a handler saves.
C31_PushTouchesMemoryOnly ==
    [][Delivery =>
        /\ UNCHANGED <<localDB, remote, blobs, legacy>>
        /\ UNCHANGED <<loadPc, loadQ>>
        /\ \A t \in Slots : tasks'[t].pc = tasks[t].pc /\ tasks'[t].cur = tasks[t].cur
        /\ initialLoadDone => (items' = CloudSorted(remote) /\ syncStatus' = "synced")]_vars

\* C31 witness: a snapshot was applied with no handler running, and the
\* object store still holds the records loadItems found in it, which are
\* not the items shown any more
C31_Witness ==
    /\ lastPush.kind = "applied" /\ ops = 0
    /\ items = CloudSorted(remote)
    /\ localDB = startLocal
    /\ localDB # Range(items)

\* C32: once an applied snapshot has taken an item out of the items because
\* the collection no longer holds its document, and no handler has written
\* the item again since, no step of a later loadItems puts that item back
\* into the items, and none writes its document to the collection again.
C32_RemoteDeletionSurvivesRestart ==
    [][LoadStep =>
        \A id \in removed :
            /\ id \notin Ids(items) => id \notin Ids(items')
            /\ id \notin SetIds(remote) => id \notin SetIds(remote')]_vars

\* the step is one of a handler other than deleteItem going on after an await
MutationStep(t) ==
    /\ tasks[t].kind \in {"note", "file", "toggle"}
    /\ tasks'[t].pc # tasks[t].pc

\* C33: once a deleteItem of an item has returned, no step of an add-note,
\* an upload or a toggle that was in flight puts that item back into the
\* items or into the object store.
C33_DeletedStaysDeleted ==
    [][\A t \in Slots : MutationStep(t) =>
        \A id \in deleted :
            /\ id \notin Ids(items) => id \notin Ids(items')
            /\ id \notin SetIds(localDB) => id \notin SetIds(localDB')]_vars

\* loadItems is through and no handler is in flight
Settled == loadPc = "done" /\ AllIdle

\* C34: when handleAddNote or handleFileUpload was called before loadItems
\* adopted a list, then once loadItems and the handler are through, every
\* record the object store held when the page was loaded (and the user has
\* not deleted) is in the object store or in the items; and no step of
\* loadItems takes an item that handler made out of the items.
C34_EarlyMutationKeepsData ==
    /\ [](Settled /\ early # {} =>
            (SetIds(startLocal) \ deleted) \subseteq (SetIds(localDB) \cup Ids(items)))
    /\ [][LoadStep => (early \cap Ids(items)) \subseteq Ids(items')]_vars

\* C35: with every call succeeding, once a deleteItem has returned, the
\* bucket holds no object of the item it deleted, whether the object was
\* uploaded by handleFileUpload, by the push loop of loadItems or by a
\* toggleImportant of an item whose data was still inline.
C35_NoOrphanedBlob == \A id \in deleted : id \notin blobs

\* the ids and the important flags of a set of records
Flags(S) == {<<x.id, x.important>> : x \in S}

C37_ToggleFlipsOneFlag ==
    /\ [][\A t \in Slots : (Publishing(t) /\ tasks'[t].kind = "toggle") =>
            LET its == tasks'[t].its
                id == tasks'[t].item.id
            IN  /\ Len(items') = Len(its)
                /\ \A i \in 1..Len(its) :
                     /\ items'[i].important = (IF its[i].id = id THEN ~its[i].important
                                                                 ELSE its[i].important)
                     /\ [items'[i] EXCEPT !.important = its[i].important] = its[i]]_vars
    /\ [](\A id \in 1..MaxId :
            /\ id \notin Ids(items) => ToggleIn(items, id) = items
            /\ ToggleIn(ToggleIn(items, id), id) = items)

\* C37 witness: a toggleImportant has published a list of two items, one of
\* them flipped and the other as it was
C37_Witness ==
    \E t \in Slots :
        /\ tasks[t].kind = "toggle" /\ Published(tasks[t])
        /\ items = tasks[t].cur
        /\ Len(items) = 2
        /\ \E i, j \in 1..2 :
             /\ items[i].important # tasks[t].its[i].important
             /\ items[j] = tasks[t].its[j]

\* C38: in the variant that saves through the debounced effect, as long as
\* the user has changed nothing, the object store holds the records it held
\* when the user was authenticated: the save armed with the empty initial
\* items does not clear it, however the timer and loadItemsFromDB are timed.
C38_AuthenticationKeepsRecords ==
    (startLocal # {} /\ ops = 0) => localDB = startLocal

====
